---- MODULE Spec2Model ----
(***************************************************************************)
(* A state-machine model of the Discord exporter                           *)
(* (src/discord-exporter/src/main.py): the run started by on_ready, i.e.   *)
(* export_messages, which ingests every selected channel with              *)
(* export_channel and then publishes with upload_sheets / save_local.      *)
(*                                                                         *)
(* export_messages is a coroutine; its only suspension points are the      *)
(* fetches of `async for m in channel.history(...)`.  The model has one    *)
(* action per resumption of the coroutine (a message, the end of the       *)
(* history, an error of the source) and one per synchronous stage of the   *)
(* publish step.                                                           *)
(*                                                                         *)
(* Message bodies are abstract: a message is its id, its type and the      *)
(* time the source took to deliver it.  A record cell derived from the     *)
(* message holds the message id, a cell derived from the channel holds the *)
(* channel id.                                                             *)
(***************************************************************************)
EXTENDS Integers, Sequences, FiniteSets, TLC

\* ------------------------------------------------------------------ bounds

\* Most text channels get_channels can return.
MaxChannels == 2
\* Most in-window messages the channels of one run hold, all together.
MaxMsgs == 3

\* Longest text drawn, in characters, next to the keys of the fix table.
MaxTextLen == 4

\* Most reactions on the message format_reactions is applied to.
MaxReactions == 2

\* ------------------------------------------------------- program constants

CHANNEL_TIMEOUT_MINUTES == 5

\* Values of Config.PROGRESS_INTERVAL: every record, every second record, and
\* the value of the repository.
ProgressIntervals == {1, 2, 50}

\* Seconds the source may take to deliver the next message: at once (the
\* message is in the page already fetched), exactly the timeout, and more.
Gaps == {0, CHANNEL_TIMEOUT_MINUTES * 60, CHANNEL_TIMEOUT_MINUTES * 60 + 1}

\* discord.MessageType: default, or anything else (join notice, pin, ...).
MessageTypes == {"default", "system"}

\* Config.GUILD_ID = None: every guild.  None is falsy, as 0 is.
None == 0

\* The ids of client.guilds, in the client's order.
Guilds == <<1, 2>>

\* A text is the sequence of its characters; a character outside ASCII is
\* written as its code point.
Whitespace == {" ", "\t", "\n"}

\* main.py 39: "<U+1F31F><U+30FB>welcome", "welcome", "<U+1F31F><U+30FB> welcome".
SKIP_CHANNELS ==
    << <<"U+1F31F", "U+30FB", "w", "e", "l", "c", "o", "m", "e">>,
       <<"w", "e", "l", "c", "o", "m", "e">>,
       <<"U+1F31F", "U+30FB", " ", "w", "e", "l", "c", "o", "m", "e">> >>

\* A text channel of guild 1 that the bot may view and read: #general.
General ==
    [name |-> <<"g", "e", "n", "e", "r", "a", "l">>,
     guild |-> 1, text |-> TRUE, view |-> TRUE, read |-> TRUE]

\* Channel names next to "general": the three skip entries in other case and
\* with padding, and a name that is no entry (a space inside).
OtherNames ==
    { <<"U+1F31F", "U+30FB", "W", "e", "l", "c", "o", "m", "e">>,
      <<" ", "W", "E", "L", "C", "O", "M", "E", "\n">>,
      <<"U+1F31F", "U+30FB", " ", "w", "e", "l", "c", "o", "m", "e", " ">>,
      <<"w", "e", "l", " ", "c", "o", "m", "e">> }

\* The channels a client can hold: #general, a channel of each other name,
\* a channel of another guild, one the bot may not view, one whose history
\* it may not read, and a channel that is no text channel.
ChannelKinds ==
    {General}
      \cup {[General EXCEPT !.name = n] : n \in OtherNames}
      \cup {[General EXCEPT !.guild = 2], [General EXCEPT !.view = FALSE],
             [General EXCEPT !.read = FALSE], [General EXCEPT !.text = FALSE]}

\* The channel caches the selection is checked on: no channel, or a channel
\* of any kind followed by #general.  The id of a channel is its place in
\* the cache.
ChannelCaches == {<<>>} \cup {<<a, General>> : a \in ChannelKinds}

\* Values of Config.CHANNEL_IDS: empty (every channel), or the id of the
\* first channel of the cache (of no channel, for the empty cache).
ChannelIdLists == {<<>>, <<1>>}

\* main.py 92-96: the fix table of clean_text, in the order of the dict.
fixes ==
    << [old |-> <<"U+00E2", "U+20AC", "U+2122">>, new |-> "'"],
       [old |-> <<"U+00E2", "U+20AC", "U+0153">>, new |-> "\""],
       [old |-> <<"U+00E2", "U+20AC">>,           new |-> "\""],
       [old |-> <<"U+00E2", "U+20AC", "U+00A2">>, new |-> "U+2022"],
       [old |-> <<"U+00E2", "U+20AC", "U+201C">>, new |-> "-"],
       [old |-> <<"U+00C3", "U+00BC">>,           new |-> "U+00FC"],
       [old |-> <<"U+00C3", "U+00B1">>,           new |-> "U+00F1"],
       [old |-> <<"U+00C4", "U+00B1">>,           new |-> "U+0131"],
       [old |-> <<"U+00C4", "U+0178">>,           new |-> "U+011F"],
       [old |-> <<"U+00C5", "U+0178">>,           new |-> "U+015F"],
       [old |-> <<"U+00C3", "U+00A7">>,           new |-> "U+00E7"],
       [old |-> <<"U+00C3", "U+00B6">>,           new |-> "U+00F6"] >>

\* The characters the short texts are made of: whitespace, a letter, and the
\* characters of the first and the third key of the fix table.
TextChars == {" ", "\n", "a", "U+00E2", "U+20AC", "U+2122"}

\* Values of Config.MAX_CONTENT_PREVIEW: around the lengths of the texts, and
\* the value of the repository.
PreviewCaps == {0, 1, 3, 100}

\* str(r.emoji): a unicode emoji is its character (thumbs up, party popper),
\* a custom emoji is written <:name:id>.
Emojis ==
    {<<"U+1F44D">>, <<"U+1F389">>, <<"<", ":", "x", ":", "7", ">">>}

\* r.count: how many users reacted with the emoji.
ReactionCounts == {1, 3, 12}

\* The dates START_DATE and END_DATE are drawn from.
Dates == {1, 2}

\* The keys of the dict export_channel appends (main.py 162-176).
RecordColumns ==
    {"timestamp", "channel", "guild", "author", "preview", "full", "length",
     "words", "reactions", "reaction_details", "attachments", "urls",
     "message_id"}

\* cols of upload_sheets (main.py 199).
SheetColumns ==
    {"timestamp", "channel", "author", "preview", "reactions",
     "reaction_details", "attachments"}

\* The steps of upload_sheets that can raise, in order.
UploadSteps ==
    <<"create", "worksheets", "All Messages", "Channel Summary",
      "Daily Activity", "Author Activity">>

VARIABLES
    INCLUDE_SYSTEM_MESSAGES,  \* Config.INCLUDE_SYSTEM_MESSAGES
    USE_GOOGLE_SHEETS,        \* Config.USE_GOOGLE_SHEETS after __init__
    sheets_client,            \* self.sheets_client after __init__: TRUE iff set
    START_DATE,               \* Config.START_DATE
    END_DATE,                 \* Config.END_DATE
    PROGRESS_INTERVAL,        \* Config.PROGRESS_INTERVAL
    CHANNEL_IDS,              \* Config.CHANNEL_IDS
    GUILD_ID,                 \* Config.GUILD_ID
    guild_channels,           \* the channels in the client's cache, by id
    pc,                       \* where the run is
    error,                    \* the exception that ended the run, or "none"
    channels,                 \* export_messages: channels
    chIdx,                    \* export_messages: index of ch in channels
    all_msgs,                 \* export_messages: all_msgs
    summary,                  \* export_messages: summary
    data,                     \* export_channel: data (then export_messages: data)
    start,                    \* export_channel: start
    count,                    \* export_channel: count
    clock,                    \* asyncio event loop time, in seconds
    hist,                     \* what the history iterator of ch will yield
    pos,                      \* how many messages it has yielded
    hung,                     \* the iterator's fetch never returns
    historyRequests,          \* channels whose history was requested, in order
    inWindow,                 \* per requested channel, its in-window messages by type
    log,                      \* what was printed: timeouts, progress, final counts
    upload_calls,             \* calls of upload_sheets
    save_calls,               \* calls of save_local
    url,                      \* export_messages: url ("unset" before the call)
    remote,                   \* the spreadsheet upload_sheets made
    local_file,               \* export_combined.xlsx
    MAX_CONTENT_PREVIEW,      \* Config.MAX_CONTENT_PREVIEW
    content,                  \* m.content: {} for None, {s} for the text s
    shown,                    \* the value of preview(m.content)
    full,                     \* the value of clean_text(m.content)
    again,                    \* the value of clean_text(full)
    tpc,                      \* which of them have been computed
    reactions,                \* m.reactions
    react,                    \* export_channel: react
    rpc                       \* whether react has been computed

vars ==
    <<INCLUDE_SYSTEM_MESSAGES, USE_GOOGLE_SHEETS, sheets_client, START_DATE,
      END_DATE, PROGRESS_INTERVAL, CHANNEL_IDS, GUILD_ID, guild_channels, pc, error, channels, chIdx, all_msgs, summary,
      data, start, count, clock, hist, pos, hung, historyRequests, inWindow,
      log, upload_calls, save_calls, url, remote, local_file,
      MAX_CONTENT_PREVIEW, content, shown, full, again, tpc,
      reactions, react, rpc>>

configVars ==
    <<INCLUDE_SYSTEM_MESSAGES, USE_GOOGLE_SHEETS, sheets_client, START_DATE,
      END_DATE, PROGRESS_INTERVAL, CHANNEL_IDS, GUILD_ID, guild_channels>>

publishVars == <<upload_calls, save_calls, url, remote, local_file>>

\* The variables of one message's text.
textVars == <<MAX_CONTENT_PREVIEW, content, shown, full, again, tpc>>

\* The variables of one message's reactions.
reactVars == <<reactions, react, rpc>>

\* The variables of the run of export_messages.
runVars ==
    <<pc, error, channels, chIdx, all_msgs, summary, data, start, count, clock,
      hist, pos, hung, historyRequests, inWindow, log>>

\* ----------------------------------------------------------------- helpers

RECURSIVE SumSeq(_)
SumSeq(s) == IF s = <<>> THEN 0 ELSE Head(s) + SumSeq(Tail(s))

\* Messages of type t in history h.
CountType(h, t) == Cardinality({i \in 1..Len(h) : h[i].type = t})

\* Messages already handed out by the histories requested so far.
MsgsUsed ==
    SumSeq([i \in 1..Len(historyRequests) |->
               inWindow[historyRequests[i]].default
                 + inWindow[historyRequests[i]].system])

\* All sequences over S of length at most n.
SeqsUpTo(S, n) == UNION {[1..k -> S] : k \in 0..n}

\* channel.history(limit=None, after=START_DATE, before=END_DATE,
\* oldest_first=True): the messages strictly between the two dates, oldest
\* first.  An empty window holds no message.
History(after, before, room) ==
    IF after < before
    THEN SeqsUpTo([type : MessageTypes, gap : Gaps], room)
    ELSE {<<>>}

\* The message the iterator yields at position i of channel ch.
MsgAt(ch, i) == [id |-> i, type |-> hist[i].type, gap |-> hist[i].gap]

\* ------------------------------------------------------------- the program

\* str.lower() on the characters of the names.
LowerChar(c) ==
    LET upper == [W |-> "w", E |-> "e", L |-> "l", C |-> "c", O |-> "o", M |-> "m"]
    IN IF c \in DOMAIN upper THEN upper[c] ELSE c

Lower(s) == [i \in 1..Len(s) |-> LowerChar(s[i])]

\* str.strip(): whitespace removed at both ends.
Strip(s) ==
    LET inner == {i \in 1..Len(s) : s[i] \notin Whitespace}
    IN IF inner = {}
       THEN <<>>
       ELSE SubSeq(s, CHOOSE i \in inner : \A j \in inner : i <= j,
                      CHOOSE i \in inner : \A j \in inner : i >= j)

\* A comparison of the name as it is, neither lowered nor stripped.
should_skip_exact(name) ==
    \E i \in 1..Len(SKIP_CHANNELS) : SKIP_CHANNELS[i] = name

\* main.py 101-103.
should_skip_channel(name) ==
    LET key == Strip(Lower(name))
    IN \E i \in 1..Len(SKIP_CHANNELS) : Strip(Lower(SKIP_CHANNELS[i])) = key

\* The texts clean_text and preview are applied to: every key of the fix
\* table, and every text of at most MaxTextLen characters of TextChars.
Texts ==
    {fixes[i].old : i \in 1..Len(fixes)} \cup SeqsUpTo(TextChars, MaxTextLen)

\* main.py 91: re.sub(r'\s+', ' ', text), every run of whitespace becomes
\* one space.
RECURSIVE CollapseWhitespace(_)
CollapseWhitespace(s) ==
    IF s = <<>> THEN <<>>
    ELSE IF Head(s) \notin Whitespace
    THEN <<Head(s)>> \o CollapseWhitespace(Tail(s))
    ELSE IF Len(s) >= 2 /\ s[2] \in Whitespace
    THEN CollapseWhitespace(Tail(s))
    ELSE <<" ">> \o CollapseWhitespace(Tail(s))

\* str.replace(old, new, 1): the first occurrence only.
RECURSIVE ReplaceFirst(_, _, _)
ReplaceFirst(s, old, new) ==
    IF Len(s) < Len(old) THEN s
    ELSE IF SubSeq(s, 1, Len(old)) = old
    THEN <<new>> \o SubSeq(s, Len(old) + 1, Len(s))
    ELSE <<Head(s)>> \o ReplaceFirst(Tail(s), old, new)

\* main.py 98: text.replace(old, new), every occurrence from the left, for
\* a new of one character.
RECURSIVE Replace(_, _, _)
Replace(s, old, new) ==
    IF Len(s) < Len(old) THEN s
    ELSE IF SubSeq(s, 1, Len(old)) = old
    THEN <<new>> \o Replace(SubSeq(s, Len(old) + 1, Len(s)), old, new)
    ELSE <<Head(s)>> \o Replace(Tail(s), old, new)

\* main.py 97-98: the entries of the table from the k-th on, in order.
RECURSIVE ApplyFixes(_, _)
ApplyFixes(s, k) ==
    IF k > Len(fixes) THEN s
    ELSE ApplyFixes(Replace(s, fixes[k].old, fixes[k].new), k + 1)

\* main.py 88-99.  text is {} for None and {s} for the string s.
clean_text(text) ==
    IF text = {} \/ text = {<<>>}
    THEN <<>>
    ELSE ApplyFixes(Strip(CollapseWhitespace(CHOOSE t \in text : TRUE)), 1)

\* A cut that keeps the text only when it is shorter than the cap.
previewStrict(c) ==
    LET txt == clean_text(c)
    IN IF Len(txt) < MAX_CONTENT_PREVIEW
       THEN txt
       ELSE SubSeq(txt, 1, MAX_CONTENT_PREVIEW) \o <<".", ".", ".">>

\* main.py 140-142.
preview(c) ==
    LET txt == clean_text(c)
    IN IF Len(txt) <= MAX_CONTENT_PREVIEW
       THEN txt
       ELSE SubSeq(txt, 1, MAX_CONTENT_PREVIEW) \o <<".", ".", ".">>

\* An integer formatted by an f-string: its decimal digits.
RECURSIVE Decimal(_)
Decimal(n) ==
    LET digit == <<"0", "1", "2", "3", "4", "5", "6", "7", "8", "9">>
    IN IF n < 10
       THEN <<digit[n + 1]>>
       ELSE Decimal(n \div 10) \o <<digit[(n % 10) + 1]>>

\* main.py 133: f"{str(r.emoji)}({r.count})".
FormatEntry(r) == r.emoji \o <<"(">> \o Decimal(r.count) \o <<")">>

\* sep.join(parts).
RECURSIVE JoinWith(_, _)
JoinWith(sep, parts) ==
    IF parts = <<>> THEN <<>>
    ELSE IF Len(parts) = 1 THEN Head(parts)
    ELSE Head(parts) \o sep \o JoinWith(sep, Tail(parts))

\* The entries joined by a comma.
JoinEntriesByComma(entries) == JoinWith(<<",", " ">>, entries)

\* main.py 136: ' | '.join(entries).
JoinEntries(entries) == JoinWith(<<" ", "|", " ">>, entries)

\* main.py 130-138.
format_reactions(rs) ==
    IF rs = <<>>
    THEN [total |-> 0, details |-> <<>>, unique |-> 0]
    ELSE LET entries == [i \in 1..Len(rs) |-> FormatEntry(rs[i])]
         IN [total |-> SumSeq([i \in 1..Len(rs) |-> rs[i].count]),
             details |-> JoinEntries(entries),
             unique |-> Len(rs)]

\* main.py 111-112: client.get_channel(cid) is a TextChannel (None for an id
\* the cache does not hold).
IsTextChannel(cid) ==
    cid \in DOMAIN guild_channels /\ guild_channels[cid].text

\* main.py 117-125: the channels taken from guild g.
FromGuild(g) ==
    IF GUILD_ID # None /\ g # GUILD_ID
    THEN <<>>
    ELSE SelectSeq([i \in 1..Len(guild_channels) |-> i],
                   LAMBDA i : /\ guild_channels[i].guild = g
                              /\ guild_channels[i].text
                              /\ ~should_skip_channel(guild_channels[i].name)
                              /\ guild_channels[i].view
                              /\ guild_channels[i].read)

RECURSIVE FromGuilds(_)
FromGuilds(gs) ==
    IF gs = <<>> THEN <<>> ELSE FromGuild(Head(gs)) \o FromGuilds(Tail(gs))

\* main.py 105-128: the ids of the channels get_channels returns, in order.
get_channels ==
    IF CHANNEL_IDS # <<>>
    THEN SelectSeq(CHANNEL_IDS,
                   LAMBDA cid : /\ IsTextChannel(cid)
                                /\ ~should_skip_channel(guild_channels[cid].name))
    ELSE FromGuilds(Guilds)

\* main.py 155: the watchdog's test.
StallExceeded(now, since) == now - since > CHANNEL_TIMEOUT_MINUTES * 60

\* The comparison of the type turned around: ordinary messages are dropped.
FilteredDefault(m) == ~INCLUDE_SYSTEM_MESSAGES /\ m.type = "default"

\* main.py 158: the message is dropped.
Filtered(m) == ~INCLUDE_SYSTEM_MESSAGES /\ m.type # "default"

\* A list shared by the calls of export_channel: the data of the call before.
StaleData == data

\* main.py 149: data = [], a fresh list per call of export_channel.
FreshData == <<>>

\* main.py 162-176: the record of message m of channel ch.
ToRecord(m, ch) ==
    [col \in RecordColumns |-> IF col \in {"channel", "guild"} THEN ch ELSE m.id]

\* A list built newest-first: the record is put in front.
PrependRecord(d, r) == <<r>> \o d

\* main.py 162: data.append(...).
AppendRecord(d, r) == Append(d, r)

\* A progress line printed before the record is counted.
ProgressLogBeforeCount(lg, ch, n) ==
    IF (n - 1) % PROGRESS_INTERVAL = 0
    THEN Append(lg, [ev |-> "progress", ch |-> ch, n |-> n - 1])
    ELSE lg

\* main.py 178-179: the progress line, when count is a multiple of the interval.
ProgressLog(lg, ch, n) ==
    IF n % PROGRESS_INTERVAL = 0
    THEN Append(lg, [ev |-> "progress", ch |-> ch, n |-> n])
    ELSE lg

\* main.py 244: all_msgs.extend(data).
Extend(all, d) == all \o d

\* A summary that forgets `if data`: an entry for every channel.
SummaryAlways(sum, ch, d) ==
    Append(sum, [channel |-> ch, total_messages |-> Len(d)])

\* main.py 245-253: one summary entry per channel with data.  The statistics
\* over the abstract message bodies are left out.
SummaryAfter(sum, ch, d) ==
    IF d # <<>>
    THEN Append(sum, [channel |-> ch, total_messages |-> Len(d)])
    ELSE sum

\* A return that leaves the loop over the channels: the channels after this
\* one are not ingested.
ChannelReturnsAndStops(d, lg) ==
    LET ch == channels[chIdx] IN
    /\ data' = d
    /\ log' = Append(lg, [ev |-> "exported", ch |-> ch, n |-> Len(d)])
    /\ all_msgs' = all_msgs \o d
    /\ summary' = IF d # <<>>
                  THEN Append(summary, [channel |-> ch, total_messages |-> Len(d)])
                  ELSE summary
    /\ chIdx' = chIdx + 1
    /\ pc' = "publish"

\* main.py 181-182 and 243-253: export_channel prints the final count and
\* returns d; export_messages adds it to all_msgs and summary and goes on to
\* the next channel, or to the publish step after the last one.
ChannelReturns(d, lg) ==
    LET ch == channels[chIdx] IN
    /\ data' = d
    /\ log' = Append(lg, [ev |-> "exported", ch |-> ch, n |-> Len(d)])
    /\ all_msgs' = Extend(all_msgs, d)
    /\ summary' = SummaryAfter(summary, ch, d)
    /\ chIdx' = chIdx + 1
    /\ pc' = IF chIdx < Len(channels) THEN "channel" ELSE "publish"

\* main.py 200: df[cols], the narrow rows of the All Messages sheet.
SheetRows(rows) ==
    [i \in 1..Len(rows) |-> [col \in SheetColumns |-> rows[i][col]]]

\* A local file written from the sheet's narrow columns.
LocalRowsNarrow(rows) ==
    [i \in 1..Len(rows) |-> [col \in SheetColumns |-> rows[i][col]]]

\* main.py 232: df.to_excel writes every column of every record.
LocalRows(rows) == rows

\* main.py 255: the remote sink is used.
RemoteEnabled == USE_GOOGLE_SHEETS /\ sheets_client

\* The step of upload_sheets that raises (0: none) when the sink fails at
\* step failAt (0: never).  pd.DataFrame([]) has no columns, so df[cols]
\* (main.py 200) raises KeyError for an empty record list.
FailingStep(failAt, rows) ==
    IF rows = <<>> /\ (failAt = 0 \/ failAt > 3) THEN 3 ELSE failAt

\* ---------------------------------------------------------------- Init

\* The state of a run before on_ready.
Start ==
    /\ pc = "ready"
    /\ error = "none"
    /\ channels = <<>>
    /\ chIdx = 0
    /\ all_msgs = <<>>
    /\ summary = <<>>
    /\ data = <<>>
    /\ start = 0
    /\ count = 0
    /\ clock = 0
    /\ hist = <<>>
    /\ pos = 0
    /\ hung = FALSE
    /\ historyRequests = <<>>
    /\ inWindow = [c \in 1..MaxChannels |-> [default |-> 0, system |-> 0]]
    /\ log = <<>>
    /\ upload_calls = 0
    /\ save_calls = 0
    /\ url = "unset"
    /\ remote = [created |-> FALSE, tables |-> {}, rows |-> <<>>]
    /\ local_file = [written |-> FALSE, rows |-> <<>>]

\* No message's text is being normalised.
NoText ==
    /\ MAX_CONTENT_PREVIEW = 100
    /\ content = {}
    /\ shown = <<>>
    /\ full = <<>>
    /\ again = <<>>
    /\ tpc = "none"

\* No message's reactions are being formatted.
NoReactions ==
    /\ reactions = <<>>
    /\ react = [total |-> 0, details |-> <<>>, unique |-> 0]
    /\ rpc = "none"

\* The configuration of the repository (every guild, no channel ids) with
\* either setting of the switches, over a client that holds up to MaxChannels
\* channels like #general.
Init ==
    /\ INCLUDE_SYSTEM_MESSAGES \in BOOLEAN
    /\ USE_GOOGLE_SHEETS \in BOOLEAN
    /\ sheets_client = USE_GOOGLE_SHEETS
    /\ START_DATE \in Dates
    /\ END_DATE \in Dates
    /\ PROGRESS_INTERVAL \in ProgressIntervals
    /\ CHANNEL_IDS = <<>>
    /\ GUILD_ID = None
    /\ guild_channels \in {[i \in 1..n |-> General] : n \in 0..MaxChannels}
    /\ Start
    /\ NoText
    /\ NoReactions

\* The selection of the channels: every cache of ChannelCaches under either
\* way of selecting and with and without a configured guild; the window is
\* open.
SelectInit ==
    /\ INCLUDE_SYSTEM_MESSAGES = FALSE
    /\ USE_GOOGLE_SHEETS = TRUE
    /\ sheets_client = TRUE
    /\ START_DATE = 1
    /\ END_DATE = 2
    /\ PROGRESS_INTERVAL = 50
    /\ CHANNEL_IDS \in ChannelIdLists
    /\ GUILD_ID \in {None, 1}
    /\ guild_channels \in ChannelCaches
    /\ Start
    /\ NoText
    /\ NoReactions

\* -------------------------------------------------------------- actions

\* main.py 235-241: export_messages up to its loop.
ExportMessages ==
    /\ pc = "ready"
    /\ channels' = get_channels
    /\ IF get_channels = <<>>
       THEN /\ pc' = "done"
            /\ log' = Append(log, [ev |-> "no_channels", ch |-> 0, n |-> 0])
            /\ chIdx' = chIdx
       ELSE /\ pc' = "channel"
            /\ log' = log
            /\ chIdx' = 1
    /\ all_msgs' = <<>>
    /\ summary' = <<>>
    /\ UNCHANGED <<error, data, start, count, clock, hist, pos, hung,
                   historyRequests, inWindow>>
    /\ UNCHANGED configVars
    /\ UNCHANGED textVars
    /\ UNCHANGED reactVars
    /\ UNCHANGED publishVars

\* main.py 147-153: export_channel up to the first fetch of the history.
ExportChannel ==
    /\ pc = "channel"
    /\ LET ch == channels[chIdx] IN
       \E h \in History(START_DATE, END_DATE, MaxMsgs - MsgsUsed) :
          /\ hist' = h
          /\ historyRequests' = Append(historyRequests, ch)
          /\ inWindow' = [inWindow EXCEPT ![ch] =
                             [default |-> CountType(h, "default"),
                              system |-> CountType(h, "system")]]
          /\ log' = Append(log, [ev |-> "exporting", ch |-> ch, n |-> 0])
    /\ pos' = 0
    /\ hung' = FALSE
    /\ data' = FreshData
    /\ start' = clock
    /\ count' = 0
    /\ pc' = "fetch"
    /\ UNCHANGED <<error, channels, chIdx, all_msgs, summary, clock>>
    /\ UNCHANGED configVars
    /\ UNCHANGED textVars
    /\ UNCHANGED reactVars
    /\ UNCHANGED publishVars

\* main.py 152-180: the source yields the next message and the loop body runs.
OnMessage ==
    /\ pc = "fetch"
    /\ ~hung
    /\ pos < Len(hist)
    /\ LET ch == channels[chIdx]
           m == MsgAt(ch, pos + 1)
           now == clock + m.gap
       IN
       /\ clock' = now
       /\ pos' = pos + 1
       /\ IF StallExceeded(now, start)
          THEN /\ ChannelReturns(data,
                     Append(log, [ev |-> "timeout", ch |-> ch, n |-> 0]))
               /\ UNCHANGED <<error, start, count>>
          ELSE IF Filtered(m)
          THEN UNCHANGED <<pc, error, chIdx, all_msgs, summary, data, start,
                           count, log>>
          ELSE \E built \in BOOLEAN :
               IF built
               THEN /\ data' = AppendRecord(data, ToRecord(m, ch))
                    /\ count' = count + 1
                    /\ log' = ProgressLog(log, ch, count + 1)
                    /\ start' = now
                    /\ UNCHANGED <<pc, error, chIdx, all_msgs, summary>>
               ELSE /\ pc' = "raised"
                    /\ error' = "record"
                    /\ UNCHANGED <<chIdx, all_msgs, summary, data, start,
                                   count, log>>
    /\ UNCHANGED <<channels, hist, hung, historyRequests, inWindow>>
    /\ UNCHANGED configVars
    /\ UNCHANGED textVars
    /\ UNCHANGED reactVars
    /\ UNCHANGED publishVars

\* main.py 152, 181-182: the history is exhausted and the loop ends.
\* The clock is read only when a message arrives (154) and when a channel
\* starts (150); the time this last fetch took is read by nothing.
HistoryExhausted ==
    /\ pc = "fetch"
    /\ ~hung
    /\ pos = Len(hist)
    /\ ChannelReturns(data, log)
    /\ UNCHANGED <<error, channels, start, count, clock, hist, pos, hung,
                   historyRequests, inWindow>>
    /\ UNCHANGED configVars
    /\ UNCHANGED textVars
    /\ UNCHANGED reactVars
    /\ UNCHANGED publishVars

\* main.py 152: the fetch raises (network, permissions); nothing in
\* export_channel or export_messages catches it.
SourceError ==
    /\ pc = "fetch"
    /\ ~hung
    /\ pc' = "raised"
    /\ error' = "source"
    /\ UNCHANGED <<channels, chIdx, all_msgs, summary, data, start, count,
                   clock, hist, pos, hung, historyRequests, inWindow, log>>
    /\ UNCHANGED configVars
    /\ UNCHANGED textVars
    /\ UNCHANGED reactVars
    /\ UNCHANGED publishVars

\* main.py 152: the fetch never returns; the loop body, and with it the
\* watchdog's test, runs only when a message arrives.
SourceHang ==
    /\ pc = "fetch"
    /\ ~hung
    /\ hung' = TRUE
    /\ UNCHANGED <<pc, error, channels, chIdx, all_msgs, summary, data, start,
                   count, clock, hist, pos, historyRequests, inWindow, log>>
    /\ UNCHANGED configVars
    /\ UNCHANGED textVars
    /\ UNCHANGED reactVars
    /\ UNCHANGED publishVars

\* main.py 254-260: the choice of the output path.
Publish ==
    /\ pc = "publish"
    /\ pc' = IF RemoteEnabled THEN "upload" ELSE "local"
    /\ UNCHANGED <<error, channels, chIdx, all_msgs, summary, data, start,
                   count, clock, hist, pos, hung, historyRequests, inWindow, log>>
    /\ UNCHANGED configVars
    /\ UNCHANGED textVars
    /\ UNCHANGED reactVars
    /\ UNCHANGED publishVars

\* main.py 184-227, 256-257: upload_sheets; every exception is caught and
\* None returned.
upload_sheets ==
    /\ pc = "upload"
    /\ \E failAt \in 0..Len(UploadSteps) :
          LET f == FailingStep(failAt, all_msgs)
              written == {i \in 3..Len(UploadSteps) : f = 0 \/ i < f}
          IN
          /\ remote' = [created |-> f = 0 \/ f > 1,
                        tables |-> {UploadSteps[i] : i \in written},
                        rows |-> IF 3 \in written THEN SheetRows(all_msgs)
                                 ELSE <<>>]
          /\ url' = IF f = 0 THEN "url" ELSE "None"
          /\ pc' = IF f = 0 THEN "done" ELSE "local"
    /\ upload_calls' = upload_calls + 1
    /\ UNCHANGED <<error, channels, chIdx, all_msgs, summary, data, start,
                   count, clock, hist, pos, hung, historyRequests, inWindow, log>>
    /\ UNCHANGED <<save_calls, local_file>>
    /\ UNCHANGED configVars
    /\ UNCHANGED textVars
    /\ UNCHANGED reactVars

\* main.py 229-233, 258, 260: save_local; an error of to_excel is not caught.
save_local ==
    /\ pc = "local"
    /\ save_calls' = save_calls + 1
    /\ \E ok \in BOOLEAN :
          IF ok
          THEN /\ local_file' = [written |-> TRUE, rows |-> LocalRows(all_msgs)]
               /\ pc' = "done"
               /\ error' = error
          ELSE /\ local_file' = local_file
               /\ pc' = "raised"
               /\ error' = "local_write"
    /\ UNCHANGED <<channels, chIdx, all_msgs, summary, data, start, count,
                   clock, hist, pos, hung, historyRequests, inWindow, log>>
    /\ UNCHANGED <<upload_calls, url, remote>>
    /\ UNCHANGED configVars
    /\ UNCHANGED textVars
    /\ UNCHANGED reactVars

\* The settings of the repository (main.py 17-43) over a client without a
\* channel, before on_ready.
Idle ==
    /\ INCLUDE_SYSTEM_MESSAGES = FALSE
    /\ USE_GOOGLE_SHEETS = TRUE
    /\ sheets_client = TRUE
    /\ START_DATE = 1
    /\ END_DATE = 2
    /\ PROGRESS_INTERVAL = 50
    /\ CHANNEL_IDS = <<>>
    /\ GUILD_ID = None
    /\ guild_channels = <<>>
    /\ Start

\* One message's content, None included, and a preview cap.
TextInit ==
    /\ Idle
    /\ NoReactions
    /\ MAX_CONTENT_PREVIEW \in PreviewCaps
    /\ content \in {{}} \cup {{t} : t \in Texts}
    /\ shown = <<>>
    /\ full = <<>>
    /\ again = <<>>
    /\ tpc = "content"

\* main.py 169: 'preview': self.preview(m.content).
Preview ==
    /\ tpc = "content"
    /\ shown' = preview(content)
    /\ tpc' = "preview"
    /\ UNCHANGED <<MAX_CONTENT_PREVIEW, content, full, again>>
    /\ UNCHANGED <<configVars, runVars, publishVars>>
    /\ UNCHANGED reactVars

\* main.py 170: 'full': self.clean_text(m.content).
CleanText ==
    /\ tpc = "preview"
    /\ full' = clean_text(content)
    /\ tpc' = "full"
    /\ UNCHANGED <<MAX_CONTENT_PREVIEW, content, shown, again>>
    /\ UNCHANGED <<configVars, runVars, publishVars>>
    /\ UNCHANGED reactVars

\* clean_text applied to a text it has returned.
CleanAgain ==
    /\ tpc = "full"
    /\ again' = clean_text({full})
    /\ tpc' = "again"
    /\ UNCHANGED <<MAX_CONTENT_PREVIEW, content, shown, full>>
    /\ UNCHANGED <<configVars, runVars, publishVars>>
    /\ UNCHANGED reactVars

\* One message's reactions: up to MaxReactions of them.
ReactInit ==
    /\ Idle
    /\ NoText
    /\ reactions \in SeqsUpTo([emoji : Emojis, count : ReactionCounts], MaxReactions)
    /\ react = [total |-> 0, details |-> <<>>, unique |-> 0]
    /\ rpc = "message"

\* main.py 160: react = self.format_reactions(m).
FormatReactions ==
    /\ rpc = "message"
    /\ react' = format_reactions(reactions)
    /\ rpc' = "formatted"
    /\ UNCHANGED reactions
    /\ UNCHANGED <<configVars, runVars, publishVars, textVars>>

Next ==
    \/ ExportMessages
    \/ ExportChannel
    \/ OnMessage
    \/ HistoryExhausted
    \/ SourceError
    \/ SourceHang
    \/ Publish
    \/ upload_sheets
    \/ save_local

Spec == Init /\ [][Next]_vars

SelectSpec == SelectInit /\ [][Next]_vars

TextNext ==
    \/ Preview
    \/ CleanText
    \/ CleanAgain

TextSpec == TextInit /\ [][TextNext]_vars

ReactNext == FormatReactions

ReactSpec == ReactInit /\ [][ReactNext]_vars

\* The event loop resumes a coroutine whose awaited fetch has completed, and
\* runs the synchronous publish step to its end.
FairSpec == Spec /\ WF_vars(Next)

\* ------------------------------------------------------ reading the state

StallTimeout == CHANNEL_TIMEOUT_MINUTES * 60

\* The channel whose history was requested last: hist, pos and data are its.
LastChannel == historyRequests[Len(historyRequests)]

\* "Timeout for #ch" was printed.
TimedOut(ch) == \E i \in 1..Len(log) : log[i].ev = "timeout" /\ log[i].ch = ch

\* export_channel has returned for ch.
Returned(ch) == \E i \in 1..Len(log) : log[i].ev = "exported" /\ log[i].ch = ch

NoTimeouts == \A i \in 1..Len(log) : log[i].ev # "timeout"

\* The include rule as the specification words it.
Accepted(type) == INCLUDE_SYSTEM_MESSAGES \/ type = "default"

\* The ids, in order, of the accepted messages among the first n of h.
AcceptedIds(h, n) ==
    SelectSeq([i \in 1..n |-> i], LAMBDA i : Accepted(h[i].type))

\* The message ids of a record list, in order.
Ids(rows) == [i \in 1..Len(rows) |-> rows[i]["message_id"]]

\* Export_channel has returned for every selected channel.
IngestionComplete == channels # <<>> /\ chIdx = Len(channels) + 1

\* The records of channel ch in all_msgs.
RecordsOf(ch) ==
    Cardinality({i \in 1..Len(all_msgs) : all_msgs[i]["channel"] = ch})

\* ------------------------------------------------------------------ claims

\* C1: as long as every message of a channel arrived within the stall timeout
\* of the message before it (the first one: of the start of the ingestion),
\* the watchdog has not tripped for that channel, however many of the
\* messages were filtered out.
C1_ResetOnEveryMessage ==
    (historyRequests # <<>> /\ \A i \in 1..pos : hist[i].gap <= StallTimeout)
        => ~TimedOut(LastChannel)

\* C2: when the first message of a channel that arrives later than the stall
\* timeout is message k+1, export_channel returns exactly the records of the
\* accepted messages among the first k, in order, and prints the timeout.
C2_ReturnsFirstK ==
    (historyRequests # <<>> /\ Returned(LastChannel))
        => \A j \in 1..Len(hist) :
              (/\ hist[j].gap > StallTimeout
               /\ \A i \in 1..(j - 1) : hist[i].gap <= StallTimeout)
                  => /\ Ids(data) = AcceptedIds(hist, j - 1)
                     /\ TimedOut(LastChannel)

\* C3: an ingestion that waits for the source eventually stops waiting: the
\* history ends, or the watchdog trips, also when the source stops yielding.
C3_IngestionCompletes == [](pc = "fetch" => <>(pc # "fetch"))

\* C4, as claimed: when upload_sheets has failed, save_local has been called
\* once with every column of every record and the run ends without an error.
C4_FallbackNeverRaises ==
    (url = "None" /\ pc \in {"done", "raised"})
        => /\ save_calls = 1
           /\ local_file = [written |-> TRUE, rows |-> all_msgs]
           /\ \A i \in 1..Len(local_file.rows) :
                 DOMAIN local_file.rows[i] = RecordColumns
           /\ pc = "done"

\* C4, amended: when upload_sheets has failed at any step, save_local has been
\* called once; the run ends without an error, the local file holding every
\* column of every record, unless the local write itself raised.
C4_Fallback ==
    (url = "None" /\ pc \in {"done", "raised"})
        => /\ upload_calls = 1
           /\ save_calls = 1
           /\ pc = "done"
                 => /\ local_file = [written |-> TRUE, rows |-> all_msgs]
                    /\ \A i \in 1..Len(local_file.rows) :
                          DOMAIN local_file.rows[i] = RecordColumns
           /\ pc = "raised" => (error = "local_write" /\ ~local_file.written)

\* A table write failed after the first table was written, and the fallback
\* saved a non-empty record list.
C4_Witness ==
    /\ url = "None"
    /\ "All Messages" \in remote.tables
    /\ pc = "done"
    /\ local_file.written
    /\ Len(local_file.rows) >= 2

\* C5: a run that has ended has called upload_sheets or save_local, and has
\* ended with an error only if the remote write and the local write both failed.
C5_AlwaysSomeOutput ==
    pc \in {"done", "raised"}
        => /\ upload_calls + save_calls >= 1
           /\ pc = "raised" => (url = "None" /\ error = "local_write")

\* C6: an error of the source while a channel's history is iterated does not
\* end the run.
C6_SourceFailureIsLocal == ~(pc = "raised" /\ error = "source")

\* C7: an error while a message's record is built does not end the run (the
\* message is skipped).
C7_MalformedIsSkipped == ~(pc = "raised" /\ error = "record")

\* C8: with START_DATE >= END_DATE no channel history is requested.
C8_InvalidWindowIsFatal == START_DATE >= END_DATE => historyRequests = <<>>

\* C9: after the ingestion of all channels with no timeout, all_msgs has as
\* many records as the channels hold accepted in-window messages, and summary
\* has exactly one entry per channel with a record, its total_messages being
\* the number of that channel's records.
C9_Counting ==
    (IngestionComplete /\ NoTimeouts)
        => /\ Len(all_msgs) =
                SumSeq([k \in 1..Len(channels) |->
                          inWindow[channels[k]].default
                            + (IF INCLUDE_SYSTEM_MESSAGES
                               THEN inWindow[channels[k]].system ELSE 0)])
           /\ \A k \in 1..Len(channels) :
                 Cardinality({i \in 1..Len(summary) :
                                 summary[i].channel = channels[k]})
                    = (IF RecordsOf(channels[k]) >= 1 THEN 1 ELSE 0)
           /\ \A i \in 1..Len(summary) :
                 /\ \E k \in 1..Len(channels) : summary[i].channel = channels[k]
                 /\ summary[i].total_messages = RecordsOf(summary[i].channel)

\* Two channels were ingested with no timeout; one has two records, the other
\* has messages but none accepted.
C9_Witness ==
    /\ IngestionComplete
    /\ NoTimeouts
    /\ pc = "done"
    /\ Len(channels) = 2
    /\ Len(all_msgs) = 2
    /\ Len(summary) = 1
    /\ \E k \in 1..2 : RecordsOf(channels[k]) = 0 /\ inWindow[channels[k]].system = 1

\* C10: all_msgs is the concatenation of the channels' complete record
\* sequences: a channel's records are contiguous, in the order the source
\* delivered them (ascending ids), and end with the data export_channel
\* returned last; no record of a channel is in all_msgs while the channel is
\* still ingested; upload_sheets and save_local run only once export_channel
\* has returned for every selected channel.
C10_ConcatenationAfterIngestion ==
    /\ \A i, j, k \in 1..Len(all_msgs) :
          (i < j /\ j < k /\ all_msgs[i]["channel"] = all_msgs[k]["channel"])
              => all_msgs[j]["channel"] = all_msgs[i]["channel"]
    /\ \A i, j \in 1..Len(all_msgs) :
          (i < j /\ all_msgs[i]["channel"] = all_msgs[j]["channel"])
              => all_msgs[i]["message_id"] < all_msgs[j]["message_id"]
    /\ (historyRequests # <<>> /\ Returned(LastChannel))
          => /\ Len(all_msgs) >= Len(data)
             /\ SubSeq(all_msgs, Len(all_msgs) - Len(data) + 1, Len(all_msgs))
                   = data
    /\ pc = "fetch" => RecordsOf(channels[chIdx]) = 0
    /\ (pc \in {"publish", "upload", "local"} \/ upload_calls + save_calls > 0)
          => /\ IngestionComplete
             /\ \A k \in 1..Len(channels) : Returned(channels[k])

\* Two channels with records were published: three records in all.
C10_Witness ==
    /\ pc = "done"
    /\ upload_calls + save_calls > 0
    /\ Len(all_msgs) = 3
    /\ Len(summary) = 2

\* The messages of the last channel that went through the loop body to its
\* end: not the one the watchdog tripped on, nor one whose record raised.
Handled ==
    IF TimedOut(LastChannel) \/ (pc = "raised" /\ error = "record")
    THEN pos - 1
    ELSE pos

\* The count export_channel printed when it returned for ch.
FinalCounts(ch) ==
    {log[i].n : i \in {j \in 1..Len(log) :
                          log[j].ev = "exported" /\ log[j].ch = ch}}

\* C11: of the messages that reach the filter (main.py 158), exactly those
\* that are ordinary, or all of them when INCLUDE_SYSTEM_MESSAGES is set,
\* have a record, one each, in the order received: a system message has none
\* when the flag is false and exactly one when it is true.
C11_Filtering ==
    historyRequests # <<>> => Ids(data) = AcceptedIds(hist, Handled)

\* With the flag false, a system message between two ordinary ones was
\* dropped and the two ordinary ones recorded.
C11_Witness ==
    /\ ~INCLUDE_SYSTEM_MESSAGES
    /\ historyRequests # <<>>
    /\ pos = 3
    /\ hist[2].type = "system"
    /\ Len(data) = 2
    /\ ~TimedOut(LastChannel)

\* C12: a watchdog trip is local to its channel and no error.  A channel's
\* stall clock starts when its own ingestion starts, so a first message
\* within the timeout never trips, whatever happened in the channels before;
\* a channel that tripped has returned, the run has gone on to the next
\* channel, and publishing starts only once every channel has returned; the
\* records collected before the trip are in all_msgs and counted in the
\* channel's final count and summary entry.
C12_TripIsLocal ==
    /\ (pc = "fetch" /\ pos = 0) => start = clock
    /\ (historyRequests # <<>> /\ TimedOut(LastChannel))
          => /\ hist[1].gap <= StallTimeout => pos >= 2
             /\ Len(all_msgs) >= Len(data)
             /\ SubSeq(all_msgs, Len(all_msgs) - Len(data) + 1, Len(all_msgs))
                   = data
             /\ Len(data) = count
    /\ \A k \in 1..Len(channels) :
          TimedOut(channels[k])
             => /\ Returned(channels[k])
                /\ chIdx > k
                /\ \/ pc \in {"channel", "fetch"}
                   \/ error \in {"source", "record"} /\ LastChannel # channels[k]
                   \/ \A j \in 1..Len(channels) : Returned(channels[j])
                /\ FinalCounts(channels[k]) = {RecordsOf(channels[k])}
                /\ RecordsOf(channels[k]) >= 1
                      => \E i \in 1..Len(summary) :
                            /\ summary[i].channel = channels[k]
                            /\ summary[i].total_messages
                                  = RecordsOf(channels[k])

\* The first channel tripped after one record; the second was then ingested
\* and both channels' records were published.
C12_Witness ==
    /\ Len(channels) = 2
    /\ TimedOut(channels[1])
    /\ RecordsOf(channels[1]) = 1
    /\ Returned(channels[2])
    /\ RecordsOf(channels[2]) = 1
    /\ Len(summary) = 2
    /\ pc = "done"

\* C13: a channel whose history holds no in-window message returns an empty
\* record list with a final count of 0, never trips the watchdog and raises
\* no error of its own: it adds no record and no summary entry.
C13_EmptyChannel ==
    (historyRequests # <<>> /\ hist = <<>>)
        => /\ data = <<>>
           /\ ~TimedOut(LastChannel)
           /\ error # "record"
           /\ RecordsOf(LastChannel) = 0
           /\ \A i \in 1..Len(summary) : summary[i].channel # LastChannel
           /\ Returned(LastChannel) => FinalCounts(LastChannel) = {0}

\* The second channel was empty and has returned, after a first channel with
\* records.
C13_Witness ==
    /\ Len(historyRequests) = 2
    /\ hist = <<>>
    /\ Returned(LastChannel)
    /\ Len(all_msgs) >= 1
    /\ data = <<>>

\* The counts of the progress lines printed for channel ch, in order.
ProgressCounts(ch) ==
    LET at == SelectSeq([i \in 1..Len(log) |-> i],
                        LAMBDA i : log[i].ev = "progress" /\ log[i].ch = ch)
    IN [k \in 1..Len(at) |-> log[at[k]].n]

\* The positive multiples of the interval up to n, in order.
MultiplesUpTo(n) ==
    [k \in 1..(n \div PROGRESS_INTERVAL) |-> k * PROGRESS_INTERVAL]

\* The step prints a progress line.
ProgressEmitted ==
    /\ Len(log') = Len(log) + 1
    /\ log'[Len(log')].ev = "progress"

\* The step accepts a message: one record more.
RecordAccepted ==
    /\ Len(data') = Len(data) + 1
    /\ SubSeq(data', 1, Len(data)) = data

\* What a step does about the progress line.
ProgressStep ==
    /\ RecordAccepted
          => (ProgressEmitted <=> Len(data') % PROGRESS_INTERVAL = 0)
    /\ ProgressEmitted
          => /\ RecordAccepted
             /\ log'[Len(log')].n = Len(data')
             /\ log'[Len(log')].ch = channels[chIdx]
             /\ count' = Len(data')
             /\ start' = clock'
             /\ pc = "fetch" /\ pc' = "fetch"
             /\ chIdx' = chIdx
             /\ all_msgs' = all_msgs /\ summary' = summary

\* C14: the progress lines of a channel carry exactly the positive multiples
\* of PROGRESS_INTERVAL up to the number of its records, in order, and the
\* counter equals the number of records; a step prints a progress line
\* exactly when it accepts a record that brings the number of records to a
\* multiple of the interval (so never for a filtered message), the line
\* carries that number, and the step is otherwise the step of any accepted
\* message: one record appended, the stall clock set to the arrival time, the
\* ingestion of the same channel going on.
C14_Progress ==
    /\ [](historyRequests # <<>>
            => /\ count = Len(data)
               /\ ProgressCounts(LastChannel) = MultiplesUpTo(Len(data)))
    /\ [][ProgressStep]_vars

C14_Witness ==
    /\ PROGRESS_INTERVAL = 2
    /\ ~INCLUDE_SYSTEM_MESSAGES
    /\ historyRequests # <<>>
    /\ pos = 3
    /\ hist[1].type = "system"
    /\ Len(data) = 2
    /\ ProgressCounts(LastChannel) = <<2>>
    /\ pc = "fetch"

\* The run has ended: export_messages has returned or raised.
RunEnded == pc \in {"done", "raised"}

\* C19: save_local is called only when the remote sink is disabled or
\* unavailable or upload_sheets returned None, and a run that has ended with
\* the sink disabled or the upload failed has called it; after upload_sheets
\* returned a location save_local is not called; upload_sheets is called at
\* most once.
C19_ExclusiveOutputs ==
    /\ save_calls >= 1 => (~(USE_GOOGLE_SHEETS /\ sheets_client) \/ url = "None")
    /\ RunEnded
          => ((~(USE_GOOGLE_SHEETS /\ sheets_client) \/ url = "None")
                 => save_calls >= 1)
    /\ url = "url" => save_calls = 0
    /\ upload_calls <= 1

\* The name equals an entry of SKIP_CHANNELS once both are lower-cased and
\* trimmed.
SkipListed(name) ==
    \E i \in 1..Len(SKIP_CHANNELS) :
        Strip(Lower(name)) = Strip(Lower(SKIP_CHANNELS[i]))

\* C20: a channel whose history was requested is a text channel of the cache
\* whose name is no SKIP_CHANNELS entry after lower-casing and trimming both,
\* under either way of selecting; under CHANNEL_IDS it is one of the ids;
\* under guild enumeration it belongs to the configured guild when one is
\* configured, and the bot may view it and read its history.
C20_Selection ==
    \A k \in 1..Len(historyRequests) :
        LET cid == historyRequests[k] IN
        /\ cid \in DOMAIN guild_channels
        /\ guild_channels[cid].text
        /\ ~SkipListed(guild_channels[cid].name)
        /\ CHANNEL_IDS # <<>> => \E i \in 1..Len(CHANNEL_IDS) : CHANNEL_IDS[i] = cid
        /\ CHANNEL_IDS = <<>>
              => /\ GUILD_ID # None => guild_channels[cid].guild = GUILD_ID
                 /\ guild_channels[cid].view
                 /\ guild_channels[cid].read

C20_Witness ==
    /\ CHANNEL_IDS = <<>>
    /\ GUILD_ID = None
    /\ Len(guild_channels) = 2
    /\ guild_channels[1].name = <<" ", "W", "E", "L", "C", "O", "M", "E", "\n">>
    /\ guild_channels[2] = General
    /\ historyRequests = <<2>>
    /\ pc = "done"

\* C15: the preview is at most three characters longer than the cap; it is
\* the cleaned text when that has at most cap characters, and otherwise the
\* first cap characters of the cleaned text followed by "...".
C15_Preview ==
    tpc \in {"full", "again"}
        => /\ Len(shown) <= MAX_CONTENT_PREVIEW + 3
           /\ Len(full) <= MAX_CONTENT_PREVIEW => shown = full
           /\ Len(full) > MAX_CONTENT_PREVIEW
                 => /\ Len(shown) = MAX_CONTENT_PREVIEW + 3
                    /\ \A i \in 1..MAX_CONTENT_PREVIEW : shown[i] = full[i]
                    /\ \A i \in 1..3 : shown[MAX_CONTENT_PREVIEW + i] = "."

C15_Witness ==
    /\ tpc = "full"
    /\ MAX_CONTENT_PREVIEW = 1
    /\ content = {<<"a", " ", "\n", "a">>}
    /\ full = <<"a", " ", "a">>
    /\ shown = <<"a", ".", ".", ".">>

\* C16: clean_text applied to a text it has returned returns that text, for
\* every content, None and the empty text included.
C16_Idempotent == tpc = "again" => again = full

C16_Witness ==
    /\ tpc = "again"
    /\ content = {<<"U+00E2", "U+20AC", "U+00E2", "U+20AC">>}
    /\ full = <<"\"", "\"">>
    /\ again = full

\* C18: for every entry (old, new) of the fix table, clean_text(old) is new.
C18_RepairsEveryKey ==
    \A i \in 1..Len(fixes) :
        (tpc \in {"full", "again"} /\ content = {fixes[i].old})
            => full = <<fixes[i].new>>

\* The entries of the reactions rs in their order, " | " between neighbours.
RECURSIVE EntriesInOrder(_)
EntriesInOrder(rs) ==
    IF rs = <<>> THEN <<>>
    ELSE LET n == Len(rs)
             last == rs[n].emoji \o <<"(">> \o Decimal(rs[n].count) \o <<")">>
         IN IF n = 1
            THEN last
            ELSE EntriesInOrder(SubSeq(rs, 1, n - 1)) \o <<" ", "|", " ">> \o last

\* C17: format_reactions returns as total the sum of the reaction counts (0
\* without reactions), as details the entries "<emoji>(<count>)" joined by
\* " | " in the order of the reactions (the empty text without reactions),
\* and as unique the number of reactions; thumbs up 3 times and party popper
\* once give total 4, "<thumbs up>(3) | <party popper>(1)" and unique 2.
C17_FormatReactions ==
    rpc = "formatted"
        => /\ react.total = SumSeq([i \in 1..Len(reactions) |-> reactions[i].count])
           /\ react.details = EntriesInOrder(reactions)
           /\ react.unique = Len(reactions)
           /\ reactions = <<>> => react = [total |-> 0, details |-> <<>>, unique |-> 0]
           /\ reactions = <<[emoji |-> <<"U+1F44D">>, count |-> 3],
                            [emoji |-> <<"U+1F389">>, count |-> 1]>>
                 => react = [total |-> 4,
                             details |-> <<"U+1F44D", "(", "3", ")", " ", "|", " ",
                                           "U+1F389", "(", "1", ")">>,
                             unique |-> 2]
           /\ reactions = <<[emoji |-> <<"<", ":", "x", ":", "7", ">">>, count |-> 12]>>
                 => react.details = <<"<", ":", "x", ":", "7", ">", "(", "1", "2", ")">>

C17_Witness ==
    /\ rpc = "formatted"
    /\ reactions = <<[emoji |-> <<"U+1F44D">>, count |-> 3],
                     [emoji |-> <<"U+1F389">>, count |-> 1]>>
    /\ react.total = 4
    /\ react.unique = 2

====
